---- MODULE Spec2Model ----
(***************************************************************************)
(* forge_view: the process library (src/process/src/lib.rs) that samples   *)
(* /proc into a System snapshot and rebuilds the process hierarchy, as a   *)
(* state machine over one System instance.                                 *)
(*                                                                         *)
(* Text read from /proc is modelled as tokens: a token is a sequence of    *)
(* one-character strings, so that parsing and substring matching are       *)
(* computed and can fail as they do in the code.                           *)
(*                                                                         *)
(* f32 values are modelled as integers: every counter drawn below is a     *)
(* multiple of 50 and every non-zero divisor divides 5000, so the          *)
(* percentages the code computes are whole numbers and \div is exact.      *)
(* A division by zero gives NaN or an infinity, kept as tagged values.     *)
(*                                                                         *)
(* Process keeps the fields pid, name and ppid; cpu_used, mem_used, path   *)
(* and user are written by refresh and read by no operation of the         *)
(* library other than their getters, and are left out of the record (the   *)
(* reads that produce them can still fail, see SampleProcess).            *)
(***************************************************************************)
EXTENDS Integers, Sequences, FiniteSets, TLC

VARIABLES
    procs,      \* System.procs: pid -> Process
    cpu_used,   \* System.cpu_used
    mem_used,   \* System.mem_used
    op,         \* the operation that ran last
    res,        \* its Result: Ok or the error that ended it
    ret,        \* its return value
    in_pids,    \* what get_all_pids returned to it: Ok(pid strings) or Err
    failed_at,  \* refresh: index of the pid whose sampling failed, else 0
    bad_ppid,   \* refresh: pids whose PPid token was read and did not parse
    drained,    \* get_procs_as_list ran and no refresh has started since
    meminfo     \* the /proc/meminfo text given to get_total_mem_usage

vars == <<procs, cpu_used, mem_used, op, res, ret, in_pids, failed_at,
          bad_ppid, drained, meminfo>>

\* ------------------------------------------------------------------ bounds

\* pids 1..MaxPid can be alive in the lifecycle specification
MaxPid == 2
\* pids 1..TreePids can be alive in the tree specification
TreePids == 3
\* a parent pid that names no process that is ever alive
AbsentPid == 99
\* pids 0..ZeroPids can be sampled where /proc is taken to list an entry "0"
ZeroPids == 2

\* ------------------------------------------------------------------ text

Digits == <<"0", "1", "2", "3", "4", "5", "6", "7", "8", "9">>

IsDigit(c) == \E d \in 1..10 : Digits[d] = c

DigitVal(c) == (CHOOSE d \in 1..10 : Digits[d] = c) - 1

\* the decimal text of n, as the kernel prints a number
RECURSIVE NatToTok(_)
NatToTok(n) ==
    IF n < 10 THEN <<Digits[n + 1]>>
    ELSE Append(NatToTok(n \div 10), Digits[(n % 10) + 1])

RECURSIVE DigitsValue(_)
DigitsValue(tok) ==
    IF tok = <<>> THEN 0
    ELSE DigitsValue(SubSeq(tok, 1, Len(tok) - 1)) * 10 + DigitVal(tok[Len(tok)])

Ok(v) == [ok |-> TRUE, val |-> v, kind |-> "none", src |-> "none"]

Err(k, s) == [ok |-> FALSE, val |-> 0, kind |-> k, src |-> s]

\* every run of at most U32Digits decimal digits is below 2^32; no token of
\* the model is longer, so the overflow case of the parse is the length test
U32Digits == 9

\* str::parse::<u32>: an optional "+", then one or more decimal digits,
\* within 32 bits; anything else is a ParseIntError.
ParseU32(tok) ==
    LET body == IF tok # <<>> /\ tok[1] = "+" THEN Tail(tok) ELSE tok
    IN  IF body = <<>> \/ \E i \in 1..Len(body) : ~IsDigit(body[i])
        THEN Err("parse", "u32")
        ELSE IF Len(body) > U32Digits
             THEN Err("parse", "u32")
             ELSE Ok(DigitsValue(body))

\* str::parse::<f32> on the tokens drawn here: a run of decimal digits is its
\* value, any other token of the model is a ParseFloatError.
ParseF32(tok) ==
    IF tok = <<>> \/ \E i \in 1..Len(tok) : ~IsDigit(tok[i])
    THEN Err("parse", "f32")
    ELSE Ok(DigitsValue(tok))

\* str::contains on one token: pat occurs in tok as a contiguous run
Contains(tok, pat) ==
    \E i \in 0..(Len(tok) - Len(pat)) :
        \A j \in 1..Len(pat) : tok[i + j] = pat[j]

\* every sequence of distinct elements of S
RECURSIVE Arrangements(_)
Arrangements(S) ==
    {<<>>} \cup UNION {{<<x>> \o a : a \in Arrangements(S \ {x})} : x \in S}

\* every ordering of all the elements of S
Permutations0(S) == {a \in Arrangements(S) : Len(a) = Cardinality(S)}

SeqRange(s) == {s[i] : i \in 1..Len(s)}

\* ------------------------------------------------------------------ f32

Num(v) == [k |-> "num", v |-> v]

NaN == [k |-> "nan", v |-> 0]

Inf == [k |-> "inf", v |-> 0]

NegInf == [k |-> "-inf", v |-> 0]

\* a / b for a, b >= 0 (IEEE: 0/0 is NaN, a/0 is +inf)
F32Div(a, b) ==
    IF b = 0 THEN (IF a = 0 THEN NaN ELSE Inf) ELSE Num(a \div b)

\* 100 - x
F32From100(x) ==
    IF x.k = "nan" THEN NaN
    ELSE IF x.k = "inf" THEN NegInf
    ELSE Num(100 - x.v)

\* ------------------------------------------------------------------ /proc

\* "Name:", "PPid:", ... as tokens
TokName == <<"N", "a", "m", "e", ":">>
TokPPid == <<"P", "P", "i", "d", ":">>
TokMemFree == <<"M", "e", "m", "F", "r", "e", "e", ":">>
TokMemTotal == <<"M", "e", "m", "T", "o", "t", "a", "l", ":">>
TokBuffers == <<"B", "u", "f", "f", "e", "r", "s", ":">>
TokCached == <<"C", "a", "c", "h", "e", "d", ":">>
TokSwapCached == <<"S", "w", "a", "p", "C", "a", "c", "h", "e", "d", ":">>
TokKB == <<"k", "B">>
TokCpu == <<"c", "p", "u">>
TokSelf == <<"s", "e", "l", "f">>
TokSh == <<"s", "h">>
TokGarbage == <<"?">>
TokRootName ==
    <<"S", "y", "s", "t", "e", "m", " ", "H", "i", "e", "r", "a", "r", "c", "h", "y">>

\* the patterns the code searches for (no colon after Buffers and Cached)
PatBuffers == <<"B", "u", "f", "f", "e", "r", "s">>
PatCached == <<"C", "a", "c", "h", "e", "d">>

\* a line is the sequence of its whitespace-separated tokens; a pattern
\* without whitespace occurs in the line iff it occurs in one token
LineContains(line, pat) == \E t \in 1..Len(line) : Contains(line[t], pat)

\* split_whitespace().nth(n).unwrap_or("0"), n counted from 0
NthOrZero(line, n) == IF n + 1 <= Len(line) THEN line[n + 1] ELSE <<"0">>

\* split_whitespace().last().unwrap_or_default()
LastOrDefault(line) == IF line = <<>> THEN <<>> ELSE line[Len(line)]

\* char::is_numeric on the first character of a file name
FirstCharNumeric(name) == name # <<>> /\ IsDigit(name[1])

\* fs::read_dir("/proc") and the filter on the entries' names
GetAllPids(rd) ==
    IF ~rd.ok THEN Err("io", "read_dir")
    ELSE Ok(SelectSeq(rd.val, FirstCharNumeric))

\* index of the first line of a text that contains pat, 0 if none
FirstLineWith(lines, pat) ==
    IF \E i \in 1..Len(lines) : LineContains(lines[i], pat)
    THEN CHOOSE i \in 1..Len(lines) :
            /\ LineContains(lines[i], pat)
            /\ \A j \in 1..(i - 1) : ~LineContains(lines[j], pat)
    ELSE 0

\* f is what /proc/<pid> holds: [status: the read of status, stat: whether
\* stat (and the files read after it) can be read]
GetProcName(f) ==
    IF ~f.status.ok THEN Err("io", "name")
    ELSE LET i == FirstLineWith(f.status.val, TokName)
         IN  IF i = 0 THEN Ok(<<>>) ELSE Ok(LastOrDefault(f.status.val[i]))

\* get_proc_cpu_usage, get_proc_mem_usage, get_proc_path, get_proc_user:
\* their values are not kept; they fail when the process's files are gone
GetProcMetrics(f) == IF f.stat THEN Ok(0) ELSE Err("io", "cpu")

GetProcPpid(f) ==
    IF ~f.status.ok THEN Err("io", "ppid")
    ELSE LET i == FirstLineWith(f.status.val, TokPPid)
         IN  IF i = 0 THEN Ok(0)
             ELSE LET p == ParseU32(LastOrDefault(f.status.val[i]))
                  IN  IF p.ok THEN p ELSE Err("parse", "ppid")

\* whether the PPid token of f is read and fails to parse
PpidTokenBad(f) ==
    /\ f.status.ok
    /\ LET i == FirstLineWith(f.status.val, TokPPid)
       IN  i # 0 /\ ~ParseU32(LastOrDefault(f.status.val[i])).ok

\* Process::new()
ProcessNew == [pid |-> 0, name |-> <<>>, ppid |-> 0]

\* one iteration of refresh's loop up to the insert: the chain of `?`
SampleProcess(pid_str, f) ==
    LET pid == ParseU32(pid_str)
        name == GetProcName(f)
        metrics == GetProcMetrics(f)
        ppid == GetProcPpid(f)
    IN  IF ~pid.ok THEN Err("parse", "pid")
        ELSE IF ~name.ok THEN name
        ELSE IF ~metrics.ok THEN metrics
        ELSE IF ~ppid.ok THEN ppid
        ELSE Ok([pid |-> pid.val, name |-> name.val, ppid |-> ppid.val])

\* get_total_cpu_usage on the read of /proc/stat
RECURSIVE CpuSum(_, _)
CpuSum(line, index) ==
    IF index = 0 THEN Ok(0)
    ELSE LET rest == CpuSum(line, index - 1)
             metric == ParseF32(NthOrZero(line, index))
         IN  IF ~rest.ok THEN rest
             ELSE IF ~metric.ok THEN Err("parse", "total_cpu")
             ELSE Ok(rest.val + metric.val)

GetTotalCpuUsage(stat) ==
    IF ~stat.ok THEN Err("io", "total_cpu")
    ELSE IF stat.val = <<>> THEN Ok(Num(0))
    ELSE LET line == stat.val[1]
             total == CpuSum(line, 9)
             idle == ParseF32(NthOrZero(line, 4))
         IN  IF ~total.ok THEN total
             ELSE Ok(F32From100(F32Div(idle.val * 100, total.val)))

\* line.contains("MemFree:") || line.contains("Buffers") || line.contains("Cached")
CountsAsFree(line) ==
    \/ LineContains(line, TokMemFree)
    \/ LineContains(line, PatBuffers)
    \/ LineContains(line, PatCached)

\* get_total_mem_usage's loop over the lines: acc = [free, total]
RECURSIVE MemLoop(_, _)
MemLoop(lines, n) ==
    IF n = 0 THEN Ok([free |-> 0, total |-> 0])
    ELSE LET before == MemLoop(lines, n - 1)
             line == lines[n]
             value == ParseF32(NthOrZero(line, 1))
         IN  IF ~before.ok THEN before
             ELSE IF (CountsAsFree(line) \/ LineContains(line, TokMemTotal))
                     /\ ~value.ok
             THEN Err("parse", "total_mem")
             ELSE Ok([free |-> IF CountsAsFree(line)
                               THEN before.val.free + value.val
                               ELSE before.val.free,
                      total |-> IF LineContains(line, TokMemTotal)
                                THEN value.val
                                ELSE before.val.total])

GetTotalMemUsage(mi) ==
    IF ~mi.ok THEN Err("io", "total_mem")
    ELSE LET acc == MemLoop(mi.val, Len(mi.val))
         IN  IF ~acc.ok THEN acc
             ELSE Ok(F32From100(F32Div(acc.val.free * 100, acc.val.total)))

\* ------------------------------------------------------------------ System

\* HashMap::new()
EmptyProcs == <<>>

\* HashMap::insert
Insert(map, key, value) ==
    [x \in (DOMAIN map) \cup {key} |-> IF x = key THEN value ELSE map[x]]

\* refresh without the clear: the previous entries stay
ClearedKeeps(map) == map

\* self.procs.clear()
Cleared(map) == EmptyProcs

\* get_procs_as_list that copies instead of draining
DrainedKeeps(map) == map

\* what self.procs.drain() leaves behind
Drained(map) == EmptyProcs

\* what /proc/<pid> can hold while refresh samples pid: the PPid line names
\* no parent (0), pid 1, a pid that is not alive, or is malformed, or is missing
PpidToks == {NatToTok(0), NatToTok(1), NatToTok(AbsentPid), TokGarbage}

StatusTexts ==
    {<<<<TokName, TokSh>>>>}
    \cup {<<<<TokName, TokSh>>, <<TokPPid, t>>>> : t \in PpidToks}

ProcFiles ==
    {[status |-> Err("io", "status"), stat |-> FALSE]}
    \cup {[status |-> Ok(t), stat |-> b] : t \in StatusTexts, b \in BOOLEAN}

\* what fs::read_dir("/proc") can give: an error, or the names of the live
\* pids in any order, with or without a non-numeric entry among them
ReadDirs(n, others) ==
    {Err("io", "read_dir")}
    \cup {Ok(l) : l \in Arrangements({NatToTok(p) : p \in 1..n} \cup others)}

\* what a read of /proc/stat can give
StatLine(user, idle) ==
    <<TokCpu, NatToTok(user), NatToTok(0), NatToTok(user), NatToTok(idle)>>

StatFiles == {Err("io", "stat"), Ok(<<StatLine(100, 800)>>)}

\* what a read of /proc/meminfo can give
MemLine(label, kb) == <<label, NatToTok(kb), TokKB>>

MemFiles ==
    {Err("io", "meminfo"),
     Ok(<<MemLine(TokMemTotal, 1000), MemLine(TokMemFree, 200),
          MemLine(TokBuffers, 50), MemLine(TokCached, 50)>>),
     Ok(<<MemLine(TokMemTotal, 1000), MemLine(TokMemFree, 200),
          MemLine(TokBuffers, 50), MemLine(TokCached, 50),
          MemLine(TokSwapCached, 100)>>)}

\* the early return of a failed sample that first inserts the unfinished Process
LoopFailureInserts(acc, i, pid_str, err, bad) ==
    [procs |-> IF ParseU32(pid_str).ok
               THEN Insert(acc, ParseU32(pid_str).val, ProcessNew)
               ELSE acc,
     res |-> err, failed_at |-> i, bad |-> bad]

\* the `?` of a failed sample: refresh returns with what it has inserted
LoopFailure(acc, i, pid_str, err, bad) ==
    [procs |-> acc, res |-> err, failed_at |-> i, bad |-> bad]

\* what sampling pid_str can come to, over everything its files can hold:
\* s is the sample, bad whether its PPid token was read and did not parse
SampleOutcomes(pid_str) ==
    {[s |-> SampleProcess(pid_str, f),
      bad |-> /\ ParseU32(pid_str).ok
              /\ GetProcName(f).ok
              /\ GetProcMetrics(f).ok
              /\ PpidTokenBad(f)] : f \in ProcFiles}

PidStrs == {NatToTok(p) : p \in 1..MaxPid}

SampleOutcomesOf == [t \in PidStrs |-> SampleOutcomes(t)]

\* the loop of refresh_system_info from its i-th pid on: the set of
\* [procs, res, failed_at, bad] it can end with
RECURSIVE RefreshLoop(_, _, _, _)
RefreshLoop(pids, i, acc, bad) ==
    IF i > Len(pids)
    THEN {[procs |-> acc, res |-> Ok(0), failed_at |-> 0, bad |-> bad]}
    ELSE UNION {
        LET bad2 == IF o.bad THEN bad \cup {ParseU32(pids[i]).val} ELSE bad
        IN  IF o.s.ok
            THEN RefreshLoop(pids, i + 1, Insert(acc, o.s.val.pid, o.s.val), bad2)
            ELSE {LoopFailure(acc, i, pids[i], o.s, bad2)}
        : o \in SampleOutcomesOf[pids[i]]}

\* what the reads of /proc/stat and /proc/meminfo can come to
TotalsReads ==
    {[c |-> GetTotalCpuUsage(st), m |-> GetTotalMemUsage(mi),
      text |-> IF mi.ok THEN mi.val ELSE <<>>] : st \in StatFiles, mi \in MemFiles}

\* the two totals at the end of a refresh whose loop finished: cpu_used is
\* assigned before /proc/meminfo is read
RefreshTotals(cpu, mem) ==
    {IF ~r.c.ok
     THEN [cpu_used |-> cpu, mem_used |-> mem, res |-> r.c, meminfo |-> <<>>]
     ELSE [cpu_used |-> r.c.val,
           mem_used |-> IF r.m.ok THEN r.m.val ELSE mem,
           res |-> IF r.m.ok THEN Ok(0) ELSE r.m,
           meminfo |-> r.text]
     : r \in TotalsReads}

\* what get_all_pids can return
Enumerations == {GetAllPids(rd) : rd \in ReadDirs(MaxPid, {TokSelf})}

\* System::get_proc_info
GetProcInfoOf(map, pid) ==
    IF pid \in DOMAIN map
    THEN [some |-> TRUE, val |-> map[pid]]
    ELSE [some |-> FALSE, val |-> ProcessNew]

\* the (pid, Process) pairs of map in the order `order` of its keys
PairsIn(map, order) == [i \in 1..Len(order) |-> <<order[i], map[order[i]]>>]

\* ------------------------------------------------------------------ tree

\* a synthetic root carrying pid 1
RootProcessOne == [pid |-> 1, name |-> TokRootName, ppid |-> 0]

\* the synthetic root of build_process_tree
RootProcess == [pid |-> 0, name |-> TokRootName, ppid |-> 0]

\* the multimap keyed by the pid itself instead of its parent's
PpidMapStepByPid(map, value) ==
    IF value.pid \in DOMAIN map
    THEN [map EXCEPT ![value.pid] = Append(@, value.pid)]
    ELSE Insert(map, value.pid, <<value.pid>>)

\* the Vacant arm inserting the pid and then pushing it as well
PpidMapStepPushesTwice(map, value) ==
    IF value.ppid \in DOMAIN map
    THEN [map EXCEPT ![value.ppid] = Append(@, value.pid)]
    ELSE Insert(map, value.ppid, <<value.pid, value.pid>>)

\* match ppid_map.entry(value.get_ppid()): Vacant inserts, Occupied pushes
PpidMapStep(map, value) ==
    IF value.ppid \in DOMAIN map
    THEN [map EXCEPT ![value.ppid] = Append(@, value.pid)]
    ELSE Insert(map, value.ppid, <<value.pid>>)

\* the loop of build_process_tree_data over the first n pid strings
RECURSIVE PpidMap(_, _, _)
PpidMap(map, pids, n) ==
    IF n = 0 THEN EmptyProcs
    ELSE LET before == PpidMap(map, pids, n - 1)
             pid == ParseU32(pids[n])
         IN  IF pid.ok /\ pid.val \in DOMAIN map
             THEN PpidMapStep(before, map[pid.val])
             ELSE before

\* whether the recursion from pid nests deeper than fuel calls
RECURSIVE Overflows(_, _, _)
Overflows(pid, ppid_map, fuel) ==
    /\ pid \in DOMAIN ppid_map
    /\ \/ fuel = 0
       \/ \E i \in 1..Len(ppid_map[pid]) :
            Overflows(ppid_map[pid][i], ppid_map, fuel - 1)

\* a child node made from Process::new() instead of the snapshot's entry
ChildProcessBlank(map, child_pid) == [ProcessNew EXCEPT !.pid = child_pid]

\* &procs[child_pid]
ChildProcess(map, child_pid) == map[child_pid]

\* build_process_tree_relations: the node of proc with its subtree
RECURSIVE Relations(_, _, _)
Relations(proc, map, ppid_map) ==
    [proc_info |-> proc,
     children |->
        IF proc.pid \in DOMAIN ppid_map
        THEN [i \in 1..Len(ppid_map[proc.pid]) |->
                Relations(ChildProcess(map, ppid_map[proc.pid][i]), map, ppid_map)]
        ELSE <<>>]

\* the pid strings build_process_tree_data works on
TreePidStrs(e) == IF e.ok THEN e.val ELSE <<>>

\* the number of pids in the multimap: a chain of calls longer than that plus
\* the root's repeats a pid, and then never ends
ChainBound(ppid_map) ==
    Cardinality(UNION {SeqRange(ppid_map[k]) : k \in DOMAIN ppid_map}) + 1

\* build_process_tree, given what get_all_pids returns to it: the tree, or
\* done = FALSE when the recursion never returns
BuildProcessTree(map, e) ==
    LET ppid_map == PpidMap(map, TreePidStrs(e), Len(TreePidStrs(e)))
    IN  IF Overflows(RootProcess.pid, ppid_map, ChainBound(ppid_map))
        THEN [done |-> FALSE,
              root |-> [proc_info |-> RootProcess, children |-> <<>>]]
        ELSE [done |-> TRUE, root |-> Relations(RootProcess, map, ppid_map)]

\* ------------------------------------------------------------------ actions

NoPids == Ok(<<>>)

Init ==
    /\ procs = EmptyProcs
    /\ cpu_used = Num(0)
    /\ mem_used = Num(0)
    /\ op = "new"
    /\ res = Ok(0)
    /\ ret = 0
    /\ in_pids = NoPids
    /\ failed_at = 0
    /\ bad_ppid = {}
    /\ drained = FALSE
    /\ meminfo = <<>>

\* System::refresh_system_info
Refresh ==
    \E e \in Enumerations :
            /\ op' = "refresh"
            /\ ret' = 0
            /\ drained' = FALSE
            /\ in_pids' = e
            /\ IF ~e.ok
               THEN /\ procs' = Cleared(procs)
                    /\ res' = e
                    /\ failed_at' = 0
                    /\ bad_ppid' = {}
                    /\ UNCHANGED <<cpu_used, mem_used>>
                    /\ meminfo' = <<>>
               ELSE \E l \in RefreshLoop(e.val, 1, Cleared(procs), {}) :
                        /\ procs' = l.procs
                        /\ failed_at' = l.failed_at
                        /\ bad_ppid' = l.bad
                        /\ IF ~l.res.ok
                           THEN /\ res' = l.res
                                /\ UNCHANGED <<cpu_used, mem_used>>
                                /\ meminfo' = <<>>
                           ELSE \E t \in RefreshTotals(cpu_used, mem_used) :
                                    /\ res' = t.res
                                    /\ cpu_used' = t.cpu_used
                                    /\ mem_used' = t.mem_used
                                    /\ meminfo' = t.meminfo

\* System::get_proc_info
GetProcInfo ==
    \E pid \in 0..MaxPid :
        /\ op' = "get_proc_info"
        /\ ret' = GetProcInfoOf(procs, pid)
        /\ res' = Ok(0)
        /\ in_pids' = NoPids
        /\ failed_at' = 0
        /\ bad_ppid' = {}
        /\ meminfo' = <<>>
        /\ UNCHANGED <<procs, cpu_used, mem_used, drained>>

\* System::get_procs_as_list: the pairs come in the map's iteration order
GetProcsAsList ==
    \E order \in Permutations0(DOMAIN procs) :
        /\ op' = "get_procs_as_list"
        /\ ret' = PairsIn(procs, order)
        /\ procs' = Drained(procs)
        /\ drained' = TRUE
        /\ res' = Ok(0)
        /\ in_pids' = NoPids
        /\ failed_at' = 0
        /\ bad_ppid' = {}
        /\ meminfo' = <<>>
        /\ UNCHANGED <<cpu_used, mem_used>>

\* build_process_tree(&system)
BuildTree ==
    \E e \in Enumerations :
        /\ op' = "build_process_tree"
        /\ in_pids' = e
        /\ ret' = BuildProcessTree(procs, e)
        /\ res' = Ok(0)
        /\ failed_at' = 0
        /\ bad_ppid' = {}
        /\ meminfo' = <<>>
        /\ UNCHANGED <<procs, cpu_used, mem_used, drained>>

Next == Refresh \/ GetProcInfo \/ GetProcsAsList \/ BuildTree

Spec == Init /\ [][Next]_vars

\* ------------------------------------------------------------------ tree inputs

\* the parent pids a sampled process can record
ParentPids(n) == (0..n) \cup {AbsentPid}

\* every snapshot refresh can leave over the pids 1..n: the key is the pid
Snapshots(n) ==
    UNION {{[p \in D |-> [pid |-> p, name |-> TokSh, ppid |-> g[p]]]
            : g \in [D -> ParentPids(n)]} : D \in SUBSET (1..n)}

\* {1 -> ppid 0, 2 -> ppid 1, 3 -> ppid 1, 4 -> ppid 99}
ExampleSnapshot ==
    [p \in 1..4 |-> [pid |-> p, name |-> TokSh,
                     ppid |-> IF p = 1 THEN 0 ELSE IF p = 4 THEN AbsentPid ELSE 1]]

\* what get_all_pids can return over the pids 1..n
EnumerationsOver(n) == {GetAllPids(rd) : rd \in ReadDirs(n, {})}

TreeInputs ==
    {[procs |-> m, e |-> e] : m \in Snapshots(TreePids), e \in EnumerationsOver(TreePids)}
    \cup {[procs |-> ExampleSnapshot, e |-> e] : e \in EnumerationsOver(4)}

\* a System holding any snapshot, and the listing its next tree build reads
TreeInit ==
    \E x \in TreeInputs :
        /\ procs = x.procs
        /\ in_pids = x.e
        /\ cpu_used = Num(0)
        /\ mem_used = Num(0)
        /\ op = "refreshed"
        /\ res = Ok(0)
        /\ ret = 0
        /\ failed_at = 0
        /\ bad_ppid = {}
        /\ drained = FALSE
        /\ meminfo = <<>>

\* build_process_tree(&system) on the drawn listing
TreeBuild ==
    /\ op = "refreshed"
    /\ op' = "build_process_tree"
    /\ ret' = BuildProcessTree(procs, in_pids)
    /\ UNCHANGED <<procs, cpu_used, mem_used, res, in_pids, failed_at,
                   bad_ppid, drained, meminfo>>

TreeNext == TreeBuild

SpecTree == TreeInit /\ [][TreeNext]_vars

\* ------------------------------------------------------------------ reading a tree

\* the pids of a subtree, node first, one entry per node
RECURSIVE NodePids(_)
NodePids(node) ==
    LET RECURSIVE Cat(_)
        Cat(n) == IF n = 0 THEN <<>>
                  ELSE Cat(n - 1) \o NodePids(node.children[n])
    IN  <<node.proc_info.pid>> \o Cat(Len(node.children))

\* the [parent, child] pairs of Process records of a subtree
RECURSIVE TreeEdges(_)
TreeEdges(node) ==
    {[parent |-> node.proc_info, child |-> node.children[i].proc_info]
        : i \in 1..Len(node.children)}
    \cup UNION {TreeEdges(node.children[i]) : i \in 1..Len(node.children)}

\* the pids of the nodes below the root
BelowRoot(tree) == SeqRange(Tail(NodePids(tree.root)))

\* the pids among alive whose chain of recorded parents, each in alive and in
\* the snapshot, ends at pid 0 within fuel links
RECURSIVE LinkedToRoot(_, _, _, _)
LinkedToRoot(p, map, alive, fuel) ==
    /\ fuel > 0
    /\ p \in alive \cap DOMAIN map
    /\ \/ map[p].ppid = 0
       \/ LinkedToRoot(map[p].ppid, map, alive, fuel - 1)

ReachableAmong(map, alive) ==
    {p \in DOMAIN map : LinkedToRoot(p, map, alive, Cardinality(DOMAIN map))}

\* the pids a listing names
ListedPids(e) ==
    {ParseU32(TreePidStrs(e)[i]).val :
        i \in {j \in 1..Len(TreePidStrs(e)) : ParseU32(TreePidStrs(e)[j]).ok}}

\* the pids of the children of the node of pid p, {} if no node has that pid
RECURSIVE ChildrenOf(_, _)
ChildrenOf(node, p) ==
    IF node.proc_info.pid = p
    THEN {node.children[i].proc_info.pid : i \in 1..Len(node.children)}
    ELSE UNION {ChildrenOf(node.children[i], p) : i \in 1..Len(node.children)}

Built == op = "build_process_tree" /\ ret.done

Refreshed == op = "refresh"

\* the pids refresh enumerated before its k-th
EnumeratedBefore(e, k) == {ParseU32(e.val[i]).val : i \in 1..(k - 1)}

\* ------------------------------------------------------------------ claims

\* C1: after a successful refresh_system_info the mapping holds exactly the
\* pids enumerated during that refresh, each under its own pid: nothing of a
\* previous snapshot is carried over and no enumerated pid is missing.
C1_ExactlyEnumerated ==
    (Refreshed /\ res.ok) =>
        /\ DOMAIN procs = EnumeratedBefore(in_pids, Len(in_pids.val) + 1)
        /\ \A p \in DOMAIN procs : procs[p].pid = p

C1_Witness ==
    /\ Refreshed /\ res.ok
    /\ Len(in_pids.val) = 1
    /\ DOMAIN procs = {2}

\* C2: when refresh_system_info fails, the mapping after it equals the
\* mapping before it (the prior snapshot is retained).
C2_FailedRefreshKeepsSnapshot ==
    [][(op' = "refresh" /\ ~res'.ok) => procs' = procs]_vars

\* C3: get_procs_as_list returns one (pid, Process) pair per entry of the
\* mapping and leaves the totals alone; from then until the next refresh
\* every lookup finds nothing, every tree is the bare root, and another
\* get_procs_as_list returns the empty sequence.
C3_ListDrains ==
    /\ [](drained =>
            /\ \A pid \in 0..MaxPid : ~GetProcInfoOf(procs, pid).some
            /\ \A e \in Enumerations :
                  /\ BuildProcessTree(procs, e).done
                  /\ BuildProcessTree(procs, e).root.children = <<>>)
    /\ [][/\ op' = "get_procs_as_list" =>
                /\ Len(ret') = Cardinality(DOMAIN procs)
                /\ {ret'[i][1] : i \in 1..Len(ret')} = DOMAIN procs
                /\ \A i \in 1..Len(ret') : ret'[i][2] = procs[ret'[i][1]]
                /\ cpu_used' = cpu_used
                /\ mem_used' = mem_used
                /\ drained'
                /\ (drained => ret' = <<>>)
          /\ (drained /\ op' = "get_proc_info") => ~ret'.some
          /\ (drained /\ op' = "build_process_tree") =>
                ret'.done /\ ret'.root.children = <<>>]_vars

C3_Witness ==
    /\ op = "get_procs_as_list"
    /\ Len(ret) = 2
    /\ cpu_used # Num(0)
    /\ procs = EmptyProcs

\* C4, as claimed: below the root the tree holds exactly the snapshot
\* processes whose chain of recorded parents leads to pid 0 through the
\* snapshot.
C4_AllReachableInTree ==
    Built => BelowRoot(ret) = ReachableAmong(procs, DOMAIN procs)

\* C4, amended: below the root the tree holds exactly the snapshot processes
\* that the tree builder's own listing names and whose chain of recorded
\* parents leads to pid 0 through such listed snapshot processes; the
\* children of a node are the listed snapshot processes recording its pid as
\* parent. For the snapshot {1 -> 0, 2 -> 1, 3 -> 1, 4 -> 99} with all four
\* pids listed, the root has the single child 1, 1 has the children 2 and 3,
\* and 4 is not in the tree.
C4_ListedReachableInTree ==
    Built =>
        /\ BelowRoot(ret) = ReachableAmong(procs, ListedPids(in_pids))
        /\ \A p \in BelowRoot(ret) \cup {0} :
              ChildrenOf(ret.root, p) =
                  {c \in ListedPids(in_pids) \cap DOMAIN procs : procs[c].ppid = p}
        /\ (procs = ExampleSnapshot /\ ListedPids(in_pids) = 1..4) =>
              /\ ChildrenOf(ret.root, 0) = {1}
              /\ ChildrenOf(ret.root, 1) = {2, 3}
              /\ ChildrenOf(ret.root, 2) = {}
              /\ ChildrenOf(ret.root, 3) = {}
              /\ BelowRoot(ret) = {1, 2, 3}

C4_Witness ==
    /\ Built
    /\ procs = ExampleSnapshot
    /\ ListedPids(in_pids) = 1..4
    /\ Len(ret.root.children) = 1
    /\ Len(ret.root.children[1].children) = 2

\* C5: in every tree, the ppid stored in a non-root node is the pid stored in
\* its parent node, and the node's Process is the snapshot's entry for its pid.
C5_ChildRecordsParent ==
    Built =>
        \A edge \in TreeEdges(ret.root) :
            /\ edge.child.ppid = edge.parent.pid
            /\ edge.child.pid \in DOMAIN procs
            /\ edge.child = procs[edge.child.pid]

C5_Witness ==
    /\ Built
    /\ \E edge \in TreeEdges(ret.root) : edge.parent.pid # 0
    /\ \E edge \in TreeEdges(ret.root) : edge.parent.pid = 0

\* C6: no pid labels two nodes of a tree, the root's pid 0 included.
C6_NoPidTwice ==
    Built => Len(NodePids(ret.root)) = Cardinality(SeqRange(NodePids(ret.root)))

C6_Witness ==
    /\ Built
    /\ Len(NodePids(ret.root)) = TreePids + 1
    /\ Len(ret.root.children) = 2

\* C7: a process whose PPid token does not parse is inserted with parent pid
\* 0 and its sampling reports no error.
C7_BadPpidDefaultsToZero ==
    Refreshed =>
        \A p \in bad_ppid :
            /\ p \in DOMAIN procs
            /\ procs[p].ppid = 0
            /\ (failed_at # 0 => ParseU32(in_pids.val[failed_at]).val # p)

\* C8, as claimed: with an empty pid enumeration refresh succeeds and leaves
\* an empty snapshot.
C8_EmptyEnumerationSucceeds ==
    (Refreshed /\ in_pids = NoPids) => (res.ok /\ procs = EmptyProcs)

\* C8, amended: with an empty pid enumeration refresh leaves an empty
\* snapshot, no pid's sampling fails, and refresh succeeds unless the read of
\* a system-wide counter fails; the tree of the empty snapshot is the bare
\* root. A tree built from an empty or unavailable listing is the bare root,
\* whatever the snapshot holds.
C8_EmptyEnumeration ==
    /\ (Refreshed /\ in_pids = NoPids) =>
          /\ procs = EmptyProcs
          /\ failed_at = 0
          /\ (res.ok \/ res.src \in {"total_cpu", "total_mem"})
          /\ \A e \in Enumerations :
                /\ BuildProcessTree(procs, e).done
                /\ BuildProcessTree(procs, e).root.children = <<>>
    /\ (op = "build_process_tree" /\ TreePidStrs(in_pids) = <<>>) =>
          /\ ret.done
          /\ ret.root.proc_info = RootProcess
          /\ ret.root.children = <<>>

C8_Witness ==
    /\ Refreshed
    /\ in_pids = NoPids
    /\ res.ok
    /\ procs = EmptyProcs
    /\ mem_used # Num(0)

\* the kB value of the one line of text labelled label, 0 if there is none
LabelledValue(text, label) ==
    IF \E i \in 1..Len(text) : text[i][1] = label
    THEN ParseF32(text[CHOOSE i \in 1..Len(text) : text[i][1] = label][2]).val
    ELSE 0

\* C9: the memory percentage a refresh computes is
\* 100 - (MemFree + Buffers + Cached) / MemTotal * 100 over the lines carrying
\* exactly these labels; no other line contributes.
C9_MemFromLabelledLines ==
    (Refreshed /\ res.ok) =>
        mem_used =
            F32From100(F32Div(
                (LabelledValue(meminfo, TokMemFree)
                 + LabelledValue(meminfo, TokBuffers)
                 + LabelledValue(meminfo, TokCached)) * 100,
                LabelledValue(meminfo, TokMemTotal)))

\* C10: when the sampling of the k-th enumerated pid fails, refresh fails,
\* the mapping holds exactly the pids enumerated before the k-th, and the
\* two totals keep the values they had before the refresh.
C10_FailedSampleAborts ==
    [][(op' = "refresh" /\ failed_at' > 0) =>
            /\ ~res'.ok
            /\ DOMAIN procs' = EnumeratedBefore(in_pids', failed_at')
            /\ ParseU32(in_pids'.val[failed_at']).val \notin DOMAIN procs'
            /\ \A i \in failed_at'..Len(in_pids'.val) :
                  ParseU32(in_pids'.val[i]).val \notin DOMAIN procs'
            /\ cpu_used' = cpu_used
            /\ mem_used' = mem_used]_vars

C10_Witness ==
    /\ Refreshed
    /\ failed_at = 2
    /\ Len(in_pids.val) = 2
    /\ DOMAIN procs = {ParseU32(in_pids.val[1]).val}
    /\ cpu_used # Num(0)

\* ------------------------------------------------------------------ C11

\* every snapshot over the pids 0..n, for a /proc that lists an entry "0"
SnapshotsWithZero(n) ==
    UNION {{[p \in D |-> [pid |-> p, name |-> TokSh, ppid |-> g[p]]]
            : g \in [D -> ParentPids(n)]} : D \in SUBSET (0..n)}

ZeroInputs ==
    {[procs |-> m, e |-> e] :
        m \in SnapshotsWithZero(ZeroPids),
        e \in {GetAllPids(rd) : rd \in ReadDirs(ZeroPids, {NatToTok(0)})}}

\* a System holding any snapshot, with or without an entry for pid 0, and
\* the listing its next tree build reads
TreeAnyInit ==
    \E x \in TreeInputs \cup ZeroInputs :
        /\ procs = x.procs
        /\ in_pids = x.e
        /\ cpu_used = Num(0)
        /\ mem_used = Num(0)
        /\ op = "refreshed"
        /\ res = Ok(0)
        /\ ret = 0
        /\ failed_at = 0
        /\ bad_ppid = {}
        /\ drained = FALSE
        /\ meminfo = <<>>

TreeAnyNext == TreeBuild

SpecTreeAny == TreeAnyInit /\ [][TreeAnyNext]_vars

\* whether the chain of recorded parents from p arrives at target within
\* fuel links, every link but the last through an entry of the snapshot
RECURSIVE ChainReaches(_, _, _, _)
ChainReaches(p, target, map, fuel) ==
    /\ fuel > 0
    /\ p \in DOMAIN map
    /\ \/ map[p].ppid = target
       \/ ChainReaches(map[p].ppid, target, map, fuel - 1)

\* the pids of the snapshot that lie on a cycle of parent links
OnCycle(map) ==
    {p \in DOMAIN map : ChainReaches(p, p, map, Cardinality(DOMAIN map))}

\* the pids on a cycle and the pids whose chain of parents arrives at one
CycleBound(map) ==
    OnCycle(map) \cup
    {p \in DOMAIN map :
        \E c \in OnCycle(map) : ChainReaches(p, c, map, Cardinality(DOMAIN map))}

\* the multimap build_process_tree_data makes of the state's snapshot and listing
StateMap == PpidMap(procs, TreePidStrs(in_pids), Len(TreePidStrs(in_pids)))

\* C11: build_process_tree terminates on every snapshot without an entry for
\* pid 0, whatever cycles its parent links form, and the pids on a cycle and
\* all their descendants are not in the tree; it fails to terminate only when
\* the snapshot holds an entry for pid 0 whose chain of parents leads back to
\* pid 0. (Whether it terminates does not depend on the depth at which the
\* model stops following the recursion.)
C11_TerminatesUnlessZeroCycle ==
    op = "build_process_tree" =>
        /\ (0 \notin DOMAIN procs) =>
              /\ ret.done
              /\ BelowRoot(ret) \cap CycleBound(procs) = {}
        /\ ~ret.done =>
              /\ 0 \in DOMAIN procs
              /\ ChainReaches(0, 0, procs, Cardinality(DOMAIN procs))
        /\ ret.done = ~Overflows(RootProcess.pid, StateMap, 2 * ChainBound(StateMap))

C11_Witness ==
    /\ Built
    /\ 0 \notin DOMAIN procs
    /\ ListedPids(in_pids) = {1, 2, 3}
    /\ OnCycle(procs) = {1, 2}
    /\ CycleBound(procs) = {1, 2, 3}
    /\ ret.root.children = <<>>

\* a diverging build: pid 0 sampled with itself on its chain of parents
C11_Diverges ==
    /\ op = "build_process_tree"
    /\ ~ret.done
    /\ procs[0].ppid # 0

====
